---- MODULE Spec2Model ----
(***************************************************************************)
(* Model of tardelr/scripts:                                               *)
(*   - test_run/conversation_to_context_v2.py: the WhatsApp transcript     *)
(*     parser (HEADER, parse_chat, split_sender_and_text,                  *)
(*     parse_to_context, write_messages_to_csv, write_context_to_csv) and  *)
(*     its batch driver main();                                            *)
(*   - send_context_to_claude.py: the batch driver main() that sends the   *)
(*     role/content tables to the two remote chat services.                *)
(*                                                                         *)
(* Text is a sequence of characters; a character is a one-character string *)
(* ("u2013" stands for the single code point U+2013, EN DASH, which the    *)
(* module's character set cannot spell).  Offsets are Python's: 0-based,   *)
(* slices half-open.                                                       *)
(***************************************************************************)
EXTENDS Naturals, Integers, Sequences, FiniteSets, TLC

VARIABLES
    text,        \* parse_chat's argument: the file's text
    pc,          \* position in the parse pipeline of one file
    matches,     \* list(HEADER.finditer(text))
    i,           \* parse_chat's loop index
    messages,    \* parse_chat's result list
    blocks,      \* the locals of each loop iteration (rest, body, full)
    context,     \* parse_to_context's result list
    msgCsv,      \* the file write_messages_to_csv wrote
    ctxCsv,      \* the file write_context_to_csv wrote
    reread,      \* the rows a csv reader gets back from msgCsv
    driver,      \* which batch driver runs: "send" or "parse"
    folderExists,\* send driver: folder_path.exists()
    dryRun,      \* send driver: args.dry_run
    hasAtKey,    \* send driver: os.getenv("AT_KEY") is set
    hasOaiKey,   \* send driver: os.getenv("OAI_KEY") is set
    files,       \* the files the driver found, each by how it behaves
    k,           \* index of the file the driver's loop is at (1-based)
    bpc,         \* position in the driver
    attempted,   \* indices of the files whose processing began, in order
    events,      \* remote calls and rate-limit sleeps, in order
    reported,    \* the driver printed that it found no files
    exitStatus   \* the process's exit status, -1 while running

parseVars == <<text, pc, matches, i, messages, blocks, context, msgCsv, ctxCsv, reread>>
batchVars == <<driver, folderExists, dryRun, hasAtKey, hasOaiKey, files, k, bpc,
               attempted, events, reported, exitStatus>>
vars == <<parseVars, batchVars>>

\* ------------------------------------------------------------ bounds
MaxLines == 3
MaxFiles == 3

\* ------------------------------------------------------------ characters
\* Python's None, kept apart from every string: no text holds this element.
None == <<"<None>">>

Digits == {"0", "1", "2", "3", "4", "5", "6", "7", "8", "9"}
\* \d of the re module
IsDigit(c) == c \in Digits
\* \s of the re module, and the characters str.strip() removes
Whitespace == {" ", "\t", "\n", "\r", "\f"}
IsSpace(c) == c \in Whitespace

\* s[a:b] with 0 <= a, b <= len(s)
Slice(s, a, b) == IF a >= b THEN <<>> ELSE SubSeq(s, a + 1, b)
\* s[p]
At(s, p) == s[p + 1]

\* ------------------------------------------------------------ HEADER
NoMatch == [ok |-> FALSE]

\* ^ under re.MULTILINE: the start of the text or just after a "\n"
LineStart(t, p) == p = 0 \/ At(t, p - 1) = "\n"

\* (\d{2}/\d{2}/\d{4}) at offset p
DateAt(t, p) ==
    /\ p + 10 <= Len(t)
    /\ \A d \in {0, 1, 3, 4, 6, 7, 8, 9} : IsDigit(At(t, p + d))
    /\ At(t, p + 2) = "/"
    /\ At(t, p + 5) = "/"

\* (\d{2}:\d{2}) at offset p
TimeAt(t, p) ==
    /\ p + 5 <= Len(t)
    /\ \A d \in {0, 1, 3, 4} : IsDigit(At(t, p + d))
    /\ At(t, p + 2) = ":"

\* \s+ from offset p is greedy: the offset of the first character at or after
\* p that is not whitespace (len(t) when there is none)
RECURSIVE SkipSpaces(_, _)
SkipSpaces(t, p) ==
    IF p < Len(t) /\ IsSpace(At(t, p)) THEN SkipSpaces(t, p + 1) ELSE p

\* (.*) from offset p: up to the next "\n" (the dot matches "\r")
RECURSIVE EndOfLine(_, _)
EndOfLine(t, p) ==
    IF p < Len(t) /\ At(t, p) # "\n" THEN EndOfLine(t, p + 1) ELSE p

\* HEADER.match at offset p: ^(\d{2}/\d{2}/\d{4})\s+(\d{2}:\d{2})\s+-\s(.*)
MatchAt(t, p) ==
    IF ~(LineStart(t, p) /\ DateAt(t, p)) THEN NoMatch
    ELSE LET q == SkipSpaces(t, p + 10) IN
         IF ~(q > p + 10 /\ TimeAt(t, q)) THEN NoMatch
         ELSE LET r == SkipSpaces(t, q + 5) IN
              IF ~(r > q + 5 /\ r + 2 <= Len(t) /\ At(t, r) = "-" /\ IsSpace(At(t, r + 1)))
              THEN NoMatch
              ELSE LET e == EndOfLine(t, r + 2) IN
                   [ok |-> TRUE, start |-> p, end |-> e,
                    date |-> Slice(t, p, p + 10), time |-> Slice(t, q, q + 5),
                    rest |-> Slice(t, r + 2, e)]

\* HEADER.finditer(text) from offset p: leftmost matches, each search resuming
\* where the previous match ended.  The pattern opens with ^, so the only
\* offsets after p where a match can start are those just after a "\n": the
\* scan goes from p to the next of them.
RECURSIVE FindIter(_, _)
FindIter(t, p) ==
    IF p >= Len(t) THEN <<>>
    ELSE LET m == MatchAt(t, p) IN
         IF m.ok THEN <<m>> \o FindIter(t, m.end) ELSE FindIter(t, EndOfLine(t, p) + 1)

\* ------------------------------------------------------------ str methods
\* s.replace("\r\n", "\n"): occurrences of "\r\n" cannot overlap, so the
\* result is s without every "\r" that a "\n" follows
IsCrOfCrLf(pair) == pair[1] = "\r" /\ pair[2] = "\n"
KeepChar(pair) == ~IsCrOfCrLf(pair)
ReplaceCrLf(s) ==
    LET pairs == [n \in 1..Len(s) |-> <<s[n], IF n < Len(s) THEN s[n + 1] ELSE "">>]
        kept  == SelectSeq(pairs, KeepChar)
    IN [n \in 1..Len(kept) |-> kept[n][1]]

\* s.replace("\r", "\n")

ReplaceCr(s) == [n \in 1..Len(s) |-> IF s[n] = "\r" THEN "\n" ELSE s[n]]

NormalizeNewlines(s) == ReplaceCr(ReplaceCrLf(s))

\* s.rstrip("\n")
RECURSIVE RStripNewlines(_)
RStripNewlines(s) ==
    IF s # <<>> /\ s[Len(s)] = "\n" THEN RStripNewlines(SubSeq(s, 1, Len(s) - 1)) ELSE s

RECURSIVE LStrip(_)
LStrip(s) == IF s # <<>> /\ IsSpace(s[1]) THEN LStrip(Tail(s)) ELSE s

RECURSIVE RStrip(_)
RStrip(s) == IF s # <<>> /\ IsSpace(s[Len(s)]) THEN RStrip(SubSeq(s, 1, Len(s) - 1)) ELSE s

\* s.strip()
Strip(s) == LStrip(RStrip(s))

\* s.find(": ") from offset p: the offset of the first occurrence, -1 if none
RECURSIVE FindDelimFrom(_, _)
FindDelimFrom(s, p) ==
    IF p + 2 > Len(s) THEN -1
    ELSE IF At(s, p) = ":" /\ At(s, p + 1) = " " THEN p
    ELSE FindDelimFrom(s, p + 1)

\* s.rfind(": "): the offset of the last occurrence, -1 if none
RECURSIVE RFindDelimFrom(_, _)
RFindDelimFrom(s, p) ==
    IF p < 0 THEN -1
    ELSE IF p + 2 <= Len(s) /\ At(s, p) = ":" /\ At(s, p + 1) = " " THEN p
    ELSE RFindDelimFrom(s, p - 1)

SplitAtLast(s) == RFindDelimFrom(s, Len(s) - 2)

\* where rest.split(": ", 1) cuts
SplitPoint(s) == FindDelimFrom(s, 0)

\* ------------------------------------------------------------ split_sender_and_text
split_sender_and_text(rest) ==
    LET d == SplitPoint(rest) IN
    IF d >= 0
    THEN LET sender == Slice(rest, 0, d)
             msg    == Slice(rest, d + 2, Len(rest))
         IN IF Strip(sender) = <<>> /\ Strip(msg) = <<>>
            THEN [sender |-> None, msg |-> <<>>]
            ELSE [sender |-> Strip(sender), msg |-> msg]
    ELSE [sender |-> None, msg |-> rest]

\* ------------------------------------------------------------ parse_chat
EndOfBodyOverlap(ms, n, t) == Len(t)

\* end_of_body for the match of 0-based index n
EndOfBody(ms, n, t) == IF n + 1 < Len(ms) THEN ms[n + 2].start ELSE Len(t)

\* full, before the line endings are normalized
JoinRestBody(rest, body) ==
    IF body # <<>> /\ body[1] = "\n" THEN rest \o body
    ELSE IF body # <<>> THEN rest \o <<"\n">> \o body ELSE rest

\* one iteration of parse_chat's loop, for the match of 0-based index n
ParseOne(ms, n, t) ==
    LET m             == ms[n + 1]
        start_of_body == m.end
        end_of_body   == EndOfBody(ms, n, t)
        body          == Slice(t, start_of_body, end_of_body)
        full          == RStripNewlines(NormalizeNewlines(JoinRestBody(m.rest, body)))
        sm            == split_sender_and_text(full)
    IN [message |-> [date |-> m.date, time |-> m.time,
                     sender |-> sm.sender, message |-> Strip(sm.msg)],
        block   |-> [start |-> m.start, bodyStart |-> start_of_body,
                     bodyEnd |-> end_of_body, rest |-> m.rest, body |-> body,
                     full |-> full]]

\* ------------------------------------------------------------ parse_to_context
AssistantIdentity == <<"M", "a", "v", "i", " ", "u2013", " ", "M", "o", "s", "a", "i", "c">>

ASSISTANT_REFERENCE_DICT == [s \in {AssistantIdentity} |-> "assistant"]

\* d.get(key, default)
DictGet(d, key, default) == IF key \in DOMAIN d THEN d[key] ELSE default

RoleOfPrefix(sender) ==
    IF Len(sender) >= 4 /\ SubSeq(sender, 1, 4) = SubSeq(AssistantIdentity, 1, 4)
    THEN "assistant" ELSE "user"

\* ASSISTANT_REFERENCE_DICT.get(message["sender"], "user")
RoleOf(sender) == DictGet(ASSISTANT_REFERENCE_DICT, sender, "user")

parse_to_context(msgs) ==
    [n \in 1..Len(msgs) |-> [role |-> RoleOf(msgs[n].sender), content |-> msgs[n].message]]

\* ------------------------------------------------------------ csv.writer
\* what csv.writer writes for a value: None as the empty string
CsvStr(v) == IF v = None THEN <<>> ELSE v

\* QUOTE_MINIMAL with lineterminator "\n": a field is quoted when it holds the
\* delimiter, the quote character or a character of the line terminator
NeedsQuote(f) == \E n \in 1..Len(f) : f[n] \in {",", "\"", "\n"}

\* doublequote: every quote character of the field is written twice (the
\* field is mapped character by character, here half by half)
RECURSIVE DoubleQuotes(_)
DoubleQuotes(f) ==
    IF f = <<>> THEN <<>>
    ELSE IF Len(f) = 1 THEN (IF f[1] = "\"" THEN <<"\"", "\"">> ELSE f)
    ELSE LET h == Len(f) \div 2 IN
         DoubleQuotes(SubSeq(f, 1, h)) \o DoubleQuotes(SubSeq(f, h + 1, Len(f)))

CsvField(v) ==
    LET f == CsvStr(v) IN
    IF NeedsQuote(f) THEN <<"\"">> \o DoubleQuotes(f) \o <<"\"">> ELSE f

RECURSIVE CsvJoin(_)
CsvJoin(fields) ==
    IF Len(fields) = 1 THEN CsvField(fields[1])
    ELSE CsvField(fields[1]) \o <<",">> \o CsvJoin(Tail(fields))

\* w.writerow(fields)
CsvRow(fields) == CsvJoin(fields) \o <<"\n">>

RECURSIVE CsvRows(_)
CsvRows(rows) == IF rows = <<>> THEN <<>> ELSE CsvRow(rows[1]) \o CsvRows(Tail(rows))

MessagesHeader == <<<<"d", "a", "t", "e">>, <<"t", "i", "m", "e">>, <<"s", "e", "n", "d", "e", "r">>, <<"m", "e", "s", "s", "a", "g", "e">>>>
ContextHeader == <<<<"r", "o", "l", "e">>, <<"c", "o", "n", "t", "e", "n", "t">>>>
RoleText(r) == IF r = "assistant" THEN <<"a", "s", "s", "i", "s", "t", "a", "n", "t">> ELSE <<"u", "s", "e", "r">>

write_messages_to_csv(rows) ==
    CsvRow(MessagesHeader) \o
    CsvRows([n \in 1..Len(rows) |->
                <<rows[n].date, rows[n].time, rows[n].sender, rows[n].message>>])

write_context_to_csv(rows) ==
    CsvRow(ContextHeader) \o
    CsvRows([n \in 1..Len(rows) |-> <<RoleText(rows[n].role), rows[n].content>>])

\* ------------------------------------------------------------ csv.reader
\* The reader's automaton (excel dialect: ",", "\"", doubled quotes, a record
\* ends at "\n", "\r" or "\r\n" outside quotes).  Its state q: st, one of
\* "start_record", "start_field", "in_field", "in_quoted", "quote_in_quoted";
\* the field and the row being read; complete, once the record has ended.
CsvStart == [st |-> "start_record", field |-> <<>>, row |-> <<>>, complete |-> FALSE]

\* the automaton's step on character c
CsvStep(q, c) ==
    IF q.st = "in_quoted"
    THEN IF c = "\"" THEN [q EXCEPT !.st = "quote_in_quoted"]
         ELSE [q EXCEPT !.field = Append(q.field, c)]
    ELSE IF q.st = "quote_in_quoted" /\ c = "\""
    THEN [q EXCEPT !.st = "in_quoted", !.field = Append(q.field, c)]
    ELSE IF c \in {"\n", "\r"}
    THEN [q EXCEPT !.complete = TRUE,
                   !.row = IF q.st = "start_record" THEN <<>> ELSE Append(q.row, q.field)]
    ELSE IF c = ","
    THEN [q EXCEPT !.st = "start_field", !.field = <<>>, !.row = Append(q.row, q.field)]
    ELSE IF c = "\"" /\ q.st \in {"start_record", "start_field"}
    THEN [q EXCEPT !.st = "in_quoted"]
    ELSE [q EXCEPT !.st = "in_field", !.field = Append(q.field, c)]

\* next(reader) from offset p: the record read and the offset after it
RECURSIVE CsvRecord(_, _, _)
CsvRecord(s, p, q) ==
    IF q.complete
    THEN [row |-> q.row,
          next |-> IF At(s, p - 1) = "\r" /\ p < Len(s) /\ At(s, p) = "\n" THEN p + 1 ELSE p]
    ELSE IF p >= Len(s)
    THEN [row |-> IF q.st = "start_record" THEN <<>> ELSE Append(q.row, q.field), next |-> p]
    ELSE CsvRecord(s, p + 1, CsvStep(q, At(s, p)))

\* list(reader) from offset p
RECURSIVE CsvRecords(_, _)
CsvRecords(s, p) ==
    IF p >= Len(s) THEN <<>>
    ELSE LET r == CsvRecord(s, p, CsvStart) IN <<r.row>> \o CsvRecords(s, r.next)

\* the table's data rows, read back: the header row is dropped
ReadTable(s) ==
    LET rows == CsvRecords(s, 0) IN
    IF rows = <<>> THEN <<>> ELSE Tail(rows)

\* ------------------------------------------------------------ input transcripts
D1 == <<"2", "4", "/", "0", "7", "/", "2", "0", "2", "5">>
T1 == <<"1", "1", ":", "2", "2">>
D2 == <<"2", "5", "/", "0", "7", "/", "2", "0", "2", "5">>
T2 == <<"1", "1", ":", "2", "3">>
H1 == D1 \o <<" ">> \o T1 \o <<" ", "-", " ">>
H2 == D2 \o <<" ">> \o T2 \o <<" ", "-", " ">>
\* a header line that ends right at the dash
H2Bare == D2 \o <<" ">> \o T2 \o <<" ", "-">>

\* The lines transcripts are built from (without their line ending).
InputLines == {
    H1 \o AssistantIdentity \o <<":", " ", "a">>,
    H2 \o <<"M", "a", "v", "i", " ", "-", " ", "M", "o", "s", "a", "i", "c", ":", " ", "b", ":", " ", "c">>,
    H1 \o <<"g">>,
    H1,
    H2Bare,
    H2 \o <<":", " ", "k">>,
    H1 \o <<":", " ">>,
    <<"h", ":", " ", "i">>,
    <<"j", ",", "\"">>,
    <<>>,
    <<" ">>,
    <<"m", "\r">>
}

RECURSIVE JoinLines(_)
JoinLines(ls) ==
    IF ls = <<>> THEN <<>>
    ELSE IF Len(ls) = 1 THEN ls[1]
    ELSE ls[1] \o <<"\n">> \o JoinLines(Tail(ls))

\* Files of at most MaxLines lines, with or without a final newline.
Texts ==
    {JoinLines(ls) \o (IF nl THEN <<"\n">> ELSE <<>>) :
        ls \in UNION {[1..n -> InputLines] : n \in 0..MaxLines}, nl \in BOOLEAN}

\* ------------------------------------------------------------ the parse pipeline
BatchIdle ==
    /\ driver = "none" /\ folderExists = TRUE /\ dryRun = FALSE
    /\ hasAtKey = TRUE /\ hasOaiKey = TRUE /\ files = <<>> /\ k = 0
    /\ bpc = "idle" /\ attempted = <<>> /\ events = <<>> /\ reported = FALSE
    /\ exitStatus = -1

Init ==
    /\ text \in Texts
    /\ pc = "start"
    /\ matches = <<>> /\ i = 0 /\ messages = <<>> /\ blocks = <<>>
    /\ context = <<>> /\ msgCsv = <<>> /\ ctxCsv = <<>> /\ reread = <<>>
    /\ BatchIdle

\* matches = list(HEADER.finditer(text))
FindHeaders ==
    /\ pc = "start"
    /\ matches' = FindIter(text, 0)
    /\ i' = 0
    /\ pc' = "loop"
    /\ UNCHANGED <<text, messages, blocks, context, msgCsv, ctxCsv, reread, batchVars>>

\* one iteration of `for i, m in enumerate(matches)`
ParseBlock ==
    /\ pc = "loop" /\ i < Len(matches)
    /\ LET r == ParseOne(matches, i, text) IN
        /\ messages' = Append(messages, r.message)
        /\ blocks' = Append(blocks, r.block)
    /\ i' = i + 1
    /\ UNCHANGED <<text, pc, matches, context, msgCsv, ctxCsv, reread, batchVars>>

\* return messages
ParseChatReturn ==
    /\ pc = "loop" /\ i = Len(matches)
    /\ pc' = "parsed"
    /\ UNCHANGED <<text, matches, i, messages, blocks, context, msgCsv, ctxCsv, reread, batchVars>>

\* context = parse_to_context(rows)
ParseToContext ==
    /\ pc = "parsed"
    /\ context' = parse_to_context(messages)
    /\ pc' = "mapped"
    /\ UNCHANGED <<text, matches, i, messages, blocks, msgCsv, ctxCsv, reread, batchVars>>

\* write_messages_to_csv(rows, output_path)
WriteMessagesCsv ==
    /\ pc = "mapped"
    /\ msgCsv' = write_messages_to_csv(messages)
    /\ pc' = "wrote_messages"
    /\ UNCHANGED <<text, matches, i, messages, blocks, context, ctxCsv, reread, batchVars>>

\* write_context_to_csv(context, output_path)
WriteContextCsv ==
    /\ pc = "wrote_messages"
    /\ ctxCsv' = write_context_to_csv(context)
    /\ pc' = "written"
    /\ UNCHANGED <<text, matches, i, messages, blocks, context, msgCsv, reread, batchVars>>

\* the messages table is read back
ReadBack ==
    /\ pc = "written"
    /\ reread' = ReadTable(msgCsv)
    /\ pc' = "reread"
    /\ UNCHANGED <<text, matches, i, messages, blocks, context, msgCsv, ctxCsv, batchVars>>

Next ==
    \/ FindHeaders
    \/ ParseBlock
    \/ ParseChatReturn
    \/ ParseToContext
    \/ WriteMessagesCsv
    \/ WriteContextCsv
    \/ ReadBack

Spec == Init /\ [][Next]_vars

\* ------------------------------------------------------------ the batch drivers
\* A file, by what happens when the send driver handles it:
\*   "unreadable"   read_messages_from_csv raises
\*   "claude_error" the call to the first service is made and raises
\*   "gpt_error"    the first call returns, the second is made and raises
\*   "bad_shape"    both calls return JSON that pretty_print_response cannot walk
\*   "ok"           both calls return what is expected
SendFileKinds == {"unreadable", "claude_error", "gpt_error", "bad_shape", "ok"}
\* and when the parse driver handles it: file.read_text raises, or not
ParseFileKinds == {"unreadable", "ok"}

FileLists(kinds) == UNION {[1..n -> kinds] : n \in 0..MaxFiles}

ParseIdle ==
    /\ text = <<>> /\ pc = "idle" /\ matches = <<>> /\ i = 0 /\ messages = <<>>
    /\ blocks = <<>> /\ context = <<>> /\ msgCsv = <<>> /\ ctxCsv = <<>> /\ reread = <<>>

BatchInit ==
    /\ driver \in {"send", "parse"}
    /\ folderExists \in BOOLEAN
    /\ dryRun \in BOOLEAN
    /\ hasAtKey \in BOOLEAN
    /\ hasOaiKey \in BOOLEAN
    /\ files \in FileLists(SendFileKinds)
    /\ driver = "parse" =>
          /\ folderExists /\ ~dryRun /\ hasAtKey /\ hasOaiKey
          /\ files \in FileLists(ParseFileKinds)
    /\ ~folderExists => files = <<>>
    /\ k = 0 /\ bpc = "start" /\ attempted = <<>> /\ events = <<>>
    /\ reported = FALSE /\ exitStatus = -1
    /\ ParseIdle

ExitAlwaysZero(found) == 0

\* send driver: what main returns once it has globbed `found` files and, when
\* there are some, has gone through them
ReturnCode(found) == IF found = 0 THEN 1 ELSE 0

\* `continue`, or the end of the loop body: on to the next file
NextFile ==
    /\ k' = k + 1
    /\ bpc' = "read"

\* send main, lines 221-237: the folder check and the glob
SendStart ==
    /\ driver = "send" /\ bpc = "start"
    /\ IF ~folderExists
       THEN /\ bpc' = "done" /\ exitStatus' = 1 /\ UNCHANGED <<k, reported>>
       ELSE IF Len(files) = 0
       THEN /\ reported' = TRUE /\ bpc' = "done"
            /\ exitStatus' = ReturnCode(Len(files)) /\ UNCHANGED k
       ELSE /\ k' = 1 /\ bpc' = "read" /\ UNCHANGED <<reported, exitStatus>>
    /\ UNCHANGED <<driver, folderExists, dryRun, hasAtKey, hasOaiKey, files,
                   attempted, events, parseVars>>

\* send main, lines 240-256: read the table, build the payload, dry run
SendRead ==
    /\ driver = "send" /\ bpc = "read" /\ k <= Len(files)
    /\ attempted' = Append(attempted, k)
    /\ IF files[k] = "unreadable" \/ dryRun
       THEN NextFile
       ELSE /\ bpc' = "claude" /\ UNCHANGED k
    /\ UNCHANGED <<driver, folderExists, dryRun, hasAtKey, hasOaiKey, files,
                   events, reported, exitStatus, parseVars>>

\* call_anthropic(payload) inside main's try
SendCallClaude ==
    /\ driver = "send" /\ bpc = "claude"
    /\ IF ~hasAtKey
       THEN /\ NextFile /\ UNCHANGED events
       ELSE /\ events' = Append(events, [type |-> "call", file |-> k, api |-> "claude"])
            /\ IF files[k] = "claude_error"
               THEN NextFile
               ELSE /\ bpc' = "gpt" /\ UNCHANGED k
    /\ UNCHANGED <<driver, folderExists, dryRun, hasAtKey, hasOaiKey, files,
                   attempted, reported, exitStatus, parseVars>>

\* call_gpt(...) inside main's try
SendCallGpt ==
    /\ driver = "send" /\ bpc = "gpt"
    /\ IF ~hasOaiKey
       THEN /\ NextFile /\ UNCHANGED events
       ELSE /\ events' = Append(events, [type |-> "call", file |-> k, api |-> "gpt"])
            /\ IF files[k] = "gpt_error"
               THEN NextFile
               ELSE /\ bpc' = "print" /\ UNCHANGED k
    /\ UNCHANGED <<driver, folderExists, dryRun, hasAtKey, hasOaiKey, files,
                   attempted, reported, exitStatus, parseVars>>

\* pretty_print_response(...), outside any try, then the rate-limit sleep
SendPrint ==
    /\ driver = "send" /\ bpc = "print"
    /\ IF files[k] = "bad_shape"
       THEN /\ bpc' = "crashed" /\ exitStatus' = 1 /\ UNCHANGED <<k, events>>
       ELSE /\ events' = IF k # Len(files)
                         THEN Append(events, [type |-> "sleep", file |-> k, api |-> "none"])
                         ELSE events
            /\ NextFile /\ UNCHANGED exitStatus
    /\ UNCHANGED <<driver, folderExists, dryRun, hasAtKey, hasOaiKey, files,
                   attempted, reported, parseVars>>

\* send main, line 285: return 0
SendReturn ==
    /\ driver = "send" /\ bpc = "read" /\ k > Len(files)
    /\ bpc' = "done"
    /\ exitStatus' = ReturnCode(Len(files))
    /\ UNCHANGED <<driver, folderExists, dryRun, hasAtKey, hasOaiKey, files, k,
                   attempted, events, reported, parseVars>>

\* parse main, line 155: files = get_files_names(PATH)
ParseStart ==
    /\ driver = "parse" /\ bpc = "start"
    /\ k' = 1 /\ bpc' = "read"
    /\ UNCHANGED <<driver, folderExists, dryRun, hasAtKey, hasOaiKey, files,
                   attempted, events, reported, exitStatus, parseVars>>

\* parse main, lines 156-165: one file read, parsed and written, no try around it
ParseFile ==
    /\ driver = "parse" /\ bpc = "read" /\ k <= Len(files)
    /\ attempted' = Append(attempted, k)
    /\ IF files[k] = "unreadable"
       THEN /\ bpc' = "crashed" /\ exitStatus' = 1 /\ UNCHANGED k
       ELSE /\ NextFile /\ UNCHANGED exitStatus
    /\ UNCHANGED <<driver, folderExists, dryRun, hasAtKey, hasOaiKey, files,
                   events, reported, parseVars>>

\* parse main falls off its loop: the script ends
ParseReturn ==
    /\ driver = "parse" /\ bpc = "read" /\ k > Len(files)
    /\ bpc' = "done" /\ exitStatus' = 0
    /\ UNCHANGED <<driver, folderExists, dryRun, hasAtKey, hasOaiKey, files, k,
                   attempted, events, reported, parseVars>>

BatchNext ==
    \/ SendStart
    \/ SendRead
    \/ SendCallClaude
    \/ SendCallGpt
    \/ SendPrint
    \/ SendReturn
    \/ ParseStart
    \/ ParseFile
    \/ ParseReturn

SpecBatch == BatchInit /\ [][BatchNext]_vars

\* ------------------------------------------------------------ properties
\* parse_chat has returned
Parsed == pc \in {"parsed", "mapped", "wrote_messages", "written", "reread"}
\* parse_to_context has returned
Mapped == pc \in {"mapped", "wrote_messages", "written", "reread"}
\* the batch driver has ended, by returning or by an uncaught exception
Terminated == bpc \in {"done", "crashed"}

\* ": " stands at offset d of s
DelimAt(s, d) == d + 2 <= Len(s) /\ At(s, d) = ":" /\ At(s, d + 1) = " "
\* d is the offset of the first ": " of s
FirstDelimAt(s, d) == DelimAt(s, d) /\ \A e \in 0..(d - 1) : ~DelimAt(s, e)
HasDelim(s) == \E d \in 0..Len(s) : DelimAt(s, d)

\* the text of block n as the transcript holds it: header span, then body
BlockSpan(n) == Slice(text, blocks[n].start, blocks[n].bodyStart) \o blocks[n].body

RECURSIVE ConcatSpans(_)
ConcatSpans(n) == IF n = 0 THEN <<>> ELSE ConcatSpans(n - 1) \o BlockSpan(n)

\* a valid transcript opens with a header
ValidTranscript == MatchAt(text, 0).ok

\* C1: once parse_chat has returned, there is one block per header match, in
\* order; block n starts where header match n starts, is not empty, and ends
\* where block n+1 starts (the last at the end of the text), so blocks neither
\* overlap nor leave a gap; no header match starts inside a block's body; the
\* blocks' spans concatenated are the text from the first header on, which
\* for a valid transcript (one that opens with a header) is the whole text.
C1_BlocksPartitionText ==
    Parsed =>
        /\ Len(blocks) = Len(matches)
        /\ Len(messages) = Len(matches)
        /\ \A n \in 1..Len(blocks) :
              /\ blocks[n].start = matches[n].start
              /\ MatchAt(text, blocks[n].start).ok
              /\ blocks[n].start < blocks[n].bodyStart
              /\ blocks[n].bodyStart <= blocks[n].bodyEnd
              /\ blocks[n].bodyEnd = IF n < Len(blocks) THEN blocks[n + 1].start ELSE Len(text)
              /\ Len(BlockSpan(n)) = blocks[n].bodyEnd - blocks[n].start
        /\ \A p \in 0..(Len(text) - 1) :
              MatchAt(text, p).ok =>
                  \E n \in 1..Len(blocks) : blocks[n].start <= p /\ p < blocks[n].bodyStart
        /\ blocks # <<>> =>
              ConcatSpans(Len(blocks)) = Slice(text, blocks[1].start, Len(text))
        /\ ValidTranscript => ConcatSpans(Len(blocks)) = text

\* C1's case: a valid transcript of several blocks, one of them with body lines
C1_Witness ==
    /\ Parsed /\ ValidTranscript /\ Len(blocks) >= 2
    /\ \E n \in 1..Len(blocks) : Len(blocks[n].body) > 1
    /\ ConcatSpans(Len(blocks)) = text

\* C2 as claimed: for every block whose text holds ": ", the sender is what
\* stands before the first ": ", trimmed, and the message is what stands
\* after it (trimmed, as every message is).
C2_SplitAtFirstDelimiter ==
    \A n \in 1..Len(messages) :
        LET full == blocks[n].full IN
        \A d \in 0..Len(full) :
            FirstDelimAt(full, d) =>
                /\ messages[n].sender = Strip(Slice(full, 0, d))
                /\ messages[n].message = Strip(Slice(full, d + 2, Len(full)))

\* C2, amended: for every block whose text holds ": ", the sender is what
\* stands before the first ": ", trimmed, and the message is what stands
\* after it, trimmed, and later ": " never split further; except that when
\* both sides are blank the sender is absent (None) and the message is empty.
C2_SplitAtFirstDelimiterUnlessBlank ==
    \A n \in 1..Len(messages) :
        LET full == blocks[n].full IN
        \A d \in 0..Len(full) :
            FirstDelimAt(full, d) =>
                LET before == Strip(Slice(full, 0, d))
                    after  == Strip(Slice(full, d + 2, Len(full)))
                IN IF before = <<>> /\ after = <<>>
                   THEN messages[n].sender = None /\ messages[n].message = <<>>
                   ELSE messages[n].sender = before /\ messages[n].message = after

\* C2's case: a sender with " - " in it, kept whole, before a message that
\* holds a later ": "
C2_Witness ==
    \E n \in 1..Len(messages) :
        /\ messages[n].sender = <<"M", "a", "v", "i", " ", "-", " ", "M", "o", "s", "a", "i", "c">>
        /\ messages[n].message = <<"b", ":", " ", "c">>

\* the header remainder of block n, line endings normalized
HeaderRemainder(n) == RStripNewlines(NormalizeNewlines(blocks[n].rest))

\* C3: the sender of every message comes from the header remainder (the rest
\* of the header line after the dash): it is None when the remainder holds no
\* ": " or nothing but blanks before the first one, whatever the body lines
\* hold, and otherwise it is the non-empty identity before the remainder's
\* first ": ".
C3_SenderFromHeaderRemainder ==
    \A n \in 1..Len(messages) :
        LET r == HeaderRemainder(n) IN
        IF \E d \in 0..Len(r) : FirstDelimAt(r, d) /\ Strip(Slice(r, 0, d)) # <<>>
        THEN \E d \in 0..Len(r) :
                FirstDelimAt(r, d) /\ messages[n].sender = Strip(Slice(r, 0, d))
        ELSE messages[n].sender = None

\* what block n says after its header's date, time and dash, line endings
\* normalized
BlockContent(n) == NormalizeNewlines(blocks[n].rest \o blocks[n].body)

\* the message block n carries: its content, without the "sender: " its header
\* line may open with
ExpectedMessage(n) ==
    LET c    == BlockContent(n)
        line == Slice(c, 0, EndOfLine(c, 0))
    IN IF HasDelim(line)
       THEN Slice(c, FindDelimFrom(line, 0) + 2, Len(c))
       ELSE c

\* C4: the message of every block is the block's message text with only the
\* surrounding whitespace removed: every line of the body is there, in place,
\* with every internal newline.
C4_MessageKeepsEveryLine ==
    \A n \in 1..Len(messages) : messages[n].message = Strip(ExpectedMessage(n))

\* the line at offset p is a header, "DD/MM/YYYY HH:MM - ", and nothing more
EmptyHeaderLineAt(p) ==
    /\ LineStart(text, p) /\ DateAt(text, p)
    /\ p + 19 <= Len(text)
    /\ At(text, p + 10) = " " /\ TimeAt(text, p + 11)
    /\ Slice(text, p + 16, p + 19) = <<" ", "-", " ">>
    /\ EndOfLine(text, p) = p + 19

\* a header line, "DD/MM/YYYY HH:MM - ...", starts at offset p
HeaderLineAt(p) ==
    /\ LineStart(text, p) /\ DateAt(text, p)
    /\ p + 19 <= Len(text)
    /\ At(text, p + 10) = " " /\ TimeAt(text, p + 11)
    /\ Slice(text, p + 16, p + 19) = <<" ", "-", " ">>

\* C5: a header line with nothing after its dash, at the very end of the text
\* or with the next header on the next line, yields a message of its own with
\* its date and time, no sender and the empty message, and the header after
\* it yields the next message.
C5_EmptyHeaderYieldsOwnMessage ==
    Parsed =>
        \A p \in 0..Len(text) :
            (/\ EmptyHeaderLineAt(p)
             /\ \/ p + 19 = Len(text)
                \/ p + 20 = Len(text)
                \/ HeaderLineAt(p + 20))
            => \E n \in 1..Len(messages) :
                  /\ blocks[n].start = p
                  /\ messages[n].date = Slice(text, p, p + 10)
                  /\ messages[n].time = Slice(text, p + 11, p + 16)
                  /\ messages[n].sender = None
                  /\ messages[n].message = <<>>
                  /\ p + 20 < Len(text) =>
                        n < Len(messages) /\ blocks[n + 1].start = p + 20

\* C6: parse_to_context gives one record per message, in order, with the
\* message as content, and role "assistant" exactly for the sender equal to
\* the configured identity "Mavi [U+2013] Mosaic", "user" for every other
\* sender, None included.
C6_RoleMapping ==
    Mapped =>
        /\ Len(context) = Len(messages)
        /\ \A n \in 1..Len(context) :
              /\ context[n].role \in {"assistant", "user"}
              /\ context[n].role = "assistant" <=>
                    messages[n].sender = <<"M", "a", "v", "i", " ", "u2013", " ", "M", "o", "s", "a", "i", "c">>
              /\ context[n].content = messages[n].message

\* C6's case: the assistant identity, a sender one character away from it,
\* and an absent sender, mapped in one run
C6_Witness ==
    /\ Mapped
    /\ \E a, b, c \in 1..Len(context) :
          /\ messages[a].sender = AssistantIdentity /\ context[a].role = "assistant"
          /\ messages[b].sender = <<"M", "a", "v", "i", " ", "-", " ", "M", "o", "s", "a", "i", "c">> /\ context[b].role = "user"
          /\ messages[c].sender = None /\ context[c].role = "user"

\* C7: the messages table read back has one row per message, in order, with
\* the date, time and message unchanged, and a sender cell that is empty
\* exactly when the sender is absent and is the sender otherwise.
C7_MessagesRoundTrip ==
    pc = "reread" =>
        /\ Len(reread) = Len(messages)
        /\ \A n \in 1..Len(reread) :
              /\ Len(reread[n]) = 4
              /\ reread[n][1] = messages[n].date
              /\ reread[n][2] = messages[n].time
              /\ reread[n][4] = messages[n].message
              /\ reread[n][3] = <<>> <=> messages[n].sender = None
              /\ messages[n].sender # None => reread[n][3] = messages[n].sender

\* C8: when a batch driver has ended, every file of its list was attempted
\* exactly once, in list order, whatever errors the files before it gave.
C8_ErrorsNeverAbortBatch ==
    Terminated => attempted = [n \in 1..Len(files) |-> n]

\* C9: between remote calls made for two different files there is a
\* rate-limit sleep.
C9_PauseBetweenFiles ==
    \A a, b \in 1..Len(events) :
        (/\ a < b
         /\ events[a].type = "call" /\ events[b].type = "call"
         /\ events[a].file # events[b].file)
        => \E c \in (a + 1)..(b - 1) : events[c].type = "sleep"

\* C10 as claimed: a driver given a folder with no input file reports that it
\* found none and ends with a success status, nothing processed, no remote
\* call made.
C10_NoFilesEndsWithSuccess ==
    (folderExists /\ Len(files) = 0) =>
        /\ bpc # "crashed"
        /\ attempted = <<>> /\ events = <<>>
        /\ bpc = "done" => reported /\ exitStatus = 0

\* C10, amended: a driver given a folder with no input file ends without an
\* exception, nothing processed, no remote call made; the send driver reports
\* that it found no files and returns status 1; the parse driver reports
\* nothing and ends with status 0.
C10_NoFilesEndsAtOnce ==
    (folderExists /\ Len(files) = 0) =>
        /\ bpc # "crashed"
        /\ attempted = <<>> /\ events = <<>>
        /\ bpc = "done" =>
              /\ driver = "send" => reported /\ exitStatus = 1
              /\ driver = "parse" => ~reported /\ exitStatus = 0

\* C10's case: the send driver has ended on an empty folder
C10_Witness ==
    /\ driver = "send" /\ folderExists /\ Len(files) = 0
    /\ bpc = "done" /\ reported /\ k = 0

====
